---- MODULE Spec2Model ----
(***************************************************************************)
(* Model of packages/core/src/entity/Reference.ts: the lazy Reference      *)
(* wrapper around an entity handle, its factory functions, load/set and    *)
(* the synchronous accessors.                                              *)
(*                                                                         *)
(* Heap objects are values [kind, id]: an entity handle, a Reference, or a *)
(* primitive.  The Reference's private field is `entity`, the helper's     *)
(* cached canonical Reference is `reference` (helper(e).__reference).      *)
(***************************************************************************)
EXTENDS Integers, Sequences, FiniteSets, TLC

\* ------------------------------------------------------------------ bounds
MaxHandles == 2
MaxRefs == 2
MaxTasks == 2

\* ------------------------------------------------------------------ values
Undefined == [kind |-> "undefined", id |-> 0]
Ent(i) == [kind |-> "entity", id |-> i]
Ref(j) == [kind |-> "ref", id |-> j]
Num(n) == [kind |-> "number", id |-> n]
Oid(n) == [kind |-> "oid", id |-> n]
Obj(n) == [kind |-> "object", id |-> n]
Text(n) == [kind |-> "string", id |-> n]
Bool(b) == [kind |-> "boolean", id |-> IF b THEN 1 ELSE 0]

\* Text(n) is the decimal text of n, Text(0) is "[object Object]", and
\* Text(10 * a + b) the composite key hash of (a, b).
Title == [kind |-> "string", id |-> -1]

\* ---------------------------------------------------------------- metadata
\* Entity types of the example schema: a document store type whose serialized
\* key field differs from its single key field, and a composite key.
Types == {"Book", "Pair"}

NoField == "-"

Meta(t) ==
  IF t = "Book"
    THEN [name |-> "Book", primaryKeys |-> <<"_id">>, serializedPrimaryKey |-> "id"]
    ELSE [name |-> "Pair", primaryKeys |-> <<"a", "b">>, serializedPrimaryKey |-> NoField]

PropNames == {"id", "_id", "a", "b", "title"}

SeqToSet(s) == {s[i] : i \in 1..Len(s)}

\* Two distinct identifier values.
PKs == {1, 2}

\* An identifier as the factory receives it: one number per key field; the
\* runs vary the first key field only.
PKInputs(t) ==
  {f \in [SeqToSet(Meta(t).primaryKeys) -> PKs] :
     \A i \in 2..Len(Meta(t).primaryKeys) : f[Meta(t).primaryKeys[i]] = 1}

\* ------------------------------------------------------------------- state
VARIABLES
  meta,         \* handle -> its entity type (helper(e).__meta)
  pk,           \* handle -> [key field -> number], the identifier fields
  initialized,  \* handle -> helper(e).__initialized
  reference,    \* handle -> helper(e).__reference: a Reference id, 0 when deleted
  entity,       \* Reference -> the value of its private field `entity`
  defined,      \* Reference -> names of the accessors the constructor defined
  tasks,        \* the load() calls made so far, in call order
  initCalls,    \* handle -> number of init delegate invocations
  last          \* the last operation and what it returned

vars == <<meta, pk, initialized, reference, entity, defined, tasks, initCalls, last>>

Handles == 1..Len(meta)
Refs == 1..Len(entity)

\* The object graph: the handles with their helper state and the References.
Heap ==
  [entity |-> entity, reference |-> reference, defined |-> defined,
   meta |-> meta, pk |-> pk, initialized |-> initialized]

\* ------------------------------------------- external helper (WrappedEntity)
\* The value of a key field that holds the number n: an object id in the
\* document store type, a number otherwise.
KeyValue(m, n) == IF m.name = "Book" THEN Oid(n) ELSE Num(n)

\* The handle's property `k` as a read of entity[k] sees it.
Prop(heap, x, k) ==
  IF x.kind # "entity" THEN Undefined
  ELSE LET h == x.id
           m == Meta(heap.meta[h])
       IN IF k \in SeqToSet(m.primaryKeys)
            THEN KeyValue(m, heap.pk[h][k])
          ELSE IF k = m.serializedPrimaryKey
            THEN Text(heap.pk[h][m.primaryKeys[1]])
          ELSE IF k = "title" /\ heap.initialized[h]
            THEN Title
          ELSE Undefined

\* helper(e).getPrimaryKey(): the key value, an object for a composite key.
getPrimaryKey(heap, h) ==
  LET ks == Meta(heap.meta[h]).primaryKeys
  IN IF Len(ks) > 1 THEN Obj(10 * heap.pk[h][ks[1]] + heap.pk[h][ks[2]])
     ELSE Prop(heap, Ent(h), ks[1])

\* helper(e).getSerializedPrimaryKey(): always a string.
getSerializedPrimaryKey(heap, h) ==
  LET ks == Meta(heap.meta[h]).primaryKeys
  IN IF Len(ks) > 1 THEN Text(10 * heap.pk[h][ks[1]] + heap.pk[h][ks[2]])
     ELSE Text(heap.pk[h][ks[1]])

\* String conversion of a template literal `${v}`.
ToStr(v) ==
  CASE v.kind = "string" -> v
    [] v.kind \in {"number", "oid"} -> Text(v.id)
    [] OTHER -> Text(0)

\* --------------------------------------------------- Reference.ts, pure part
\* Reference.isReference: data && !!data.__reference; only the Reference
\* prototype carries __reference.
isReference(x) == x # Undefined /\ x.kind = "ref"

unwrap(heap, r) == heap.entity[r]

unwrapReference(heap, x) == IF isReference(x) THEN unwrap(heap, x.id) ELSE x

\* helper(x) is x.__helper; on a Reference the getter forwards to
\* this.entity.__helper.  0 when the chain does not end at a handle.
RECURSIVE HelperAt(_, _, _)
HelperAt(heap, x, fuel) ==
  IF x.kind = "entity" THEN x.id
  ELSE IF x.kind = "ref" /\ fuel > 0 THEN HelperAt(heap, heap.entity[x.id], fuel - 1)
  ELSE 0

helper(heap, x) == HelperAt(heap, x, Len(heap.entity))

\* set that re-points every Reference to the handle this one wrapped.
setAliased(heap, r, x) ==
  LET old == heap.entity[r]
      new == unwrapReference(heap, x)
      h1 == [heap EXCEPT !.entity = [j \in DOMAIN heap.entity |->
                                       IF heap.entity[j] = old THEN new ELSE heap.entity[j]]]
      e == helper(h1, h1.entity[r])
  IN IF e \in DOMAIN h1.reference THEN [h1 EXCEPT !.reference[e] = 0] ELSE h1

\* set that stores its argument as given, a Reference included.
setNoUnwrap(heap, r, x) ==
  LET h1 == [heap EXCEPT !.entity[r] = x]
      e == helper(h1, h1.entity[r])
  IN IF e \in DOMAIN h1.reference THEN [h1 EXCEPT !.reference[e] = 0] ELSE h1

\* set that deletes the marker of its argument and keeps the wrapped handle.
setNoAssign(heap, r, x) ==
  LET e == helper(heap, x)
  IN IF e \in DOMAIN heap.reference THEN [heap EXCEPT !.reference[e] = 0] ELSE heap

\* set(entity): this.entity = unwrapReference(entity); delete helper(this.entity).__reference
set(heap, r, x) ==
  LET h1 == [heap EXCEPT !.entity[r] = unwrapReference(heap, x)]
      e == helper(h1, h1.entity[r])
  IN IF e \in DOMAIN h1.reference THEN [h1 EXCEPT !.reference[e] = 0] ELSE h1

\* Accessors for the first key field alone.
AccessorsFirstKey(m) ==
  {[name |-> m.primaryKeys[1], getter |-> "field"]}
    \cup (IF m.serializedPrimaryKey # NoField /\ m.primaryKeys[1] # m.serializedPrimaryKey
            THEN {[name |-> m.serializedPrimaryKey, getter |-> "serialized"]}
            ELSE {})

\* The accessors the constructor defines from the metadata of this.entity.
Accessors(m) ==
  {[name |-> k, getter |-> "field"] : k \in SeqToSet(m.primaryKeys)}
    \cup (IF m.serializedPrimaryKey # NoField /\ m.primaryKeys[1] # m.serializedPrimaryKey
            THEN {[name |-> m.serializedPrimaryKey, getter |-> "serialized"]}
            ELSE {})

\* new Reference(entity): the new Reference is Len(heap.entity) + 1.
construct(heap, x) ==
  LET r == Len(heap.entity) + 1
      h0 == [heap EXCEPT !.entity = Append(@, x), !.defined = Append(@, {})]
      h1 == set(h0, r, x)
      e == helper(h1, h1.entity[r])
  IN [h1 EXCEPT !.defined[r] = IF e = 0 THEN {} ELSE Accessors(Meta(heap.meta[e]))]

\* helper(e).toReference(): the cached canonical Reference, created on demand.
toReference(heap, e) ==
  IF heap.reference[e] # 0 THEN [heap |-> heap, ret |-> heap.reference[e]]
  ELSE LET h1 == construct(heap, Ent(e))
           r == Len(h1.entity)
       IN [heap |-> [h1 EXCEPT !.reference[e] = r], ret |-> r]

\* create without the re-point of a stale canonical Reference.
createNoRepoint(heap, x) ==
  LET tr == toReference(heap, helper(heap, x))
  IN [heap |-> tr.heap, ret |-> tr.ret]

\* create with the test of the re-point inverted.
createInvertedTest(heap, x) ==
  LET unwrapped == unwrapReference(heap, x)
      tr == toReference(heap, helper(heap, x))
      ref == tr.ret
  IN [heap |-> IF unwrapped = unwrap(tr.heap, ref) THEN set(tr.heap, ref, unwrapped) ELSE tr.heap,
      ret |-> ref]

\* Reference.create(entity)
create(heap, x) ==
  LET unwrapped == unwrapReference(heap, x)
      tr == toReference(heap, helper(heap, x))
      ref == tr.ret
  IN [heap |-> IF unwrapped # unwrap(tr.heap, ref) THEN set(tr.heap, ref, unwrapped) ELSE tr.heap,
      ret |-> ref]

\* Reading property k of a Reference: one of the defined accessors, or nothing.
Accessor(heap, r, k) ==
  LET ds == {d \in heap.defined[r] : d.name = k}
  IN IF ds = {} THEN Undefined
     ELSE LET d == CHOOSE d \in ds : TRUE
          IN IF d.getter = "field" THEN Prop(heap, heap.entity[r], k)
             ELSE getSerializedPrimaryKey(heap, helper(heap, heap.entity[r]))

isInitialized(heap, r) == heap.initialized[helper(heap, heap.entity[r])]

\* ------------------------------------------------------------------ errors
\* What the init delegate is called with, <<>> when it is not called.
NoInit == <<>>

NoError == [kind |-> "none", name |-> "", pk |-> Undefined]
DelegateErrors == {[kind |-> k, name |-> "", pk |-> Undefined] : k \in {"FetchFailed", "LockTimeout"}}

Ok(v) == [status |-> "ok", value |-> v, error |-> NoError]
Err(e) == [status |-> "error", value |-> Undefined, error |-> e]

\* The same Error with the serialized key in its message.
NotInitializedSerialized(heap, r) ==
  LET e == helper(heap, heap.entity[r])
  IN [kind |-> "NotInitialized", name |-> Meta(heap.meta[e]).name, pk |-> getSerializedPrimaryKey(heap, e)]

\* The Error getEntity() throws; the message interpolates the type name and
\* helper(this.entity).getPrimaryKey().
NotInitialized(heap, r) ==
  LET e == helper(heap, heap.entity[r])
  IN [kind |-> "NotInitialized", name |-> Meta(heap.meta[e]).name, pk |-> ToStr(getPrimaryKey(heap, e))]

\* getEntity without the test of isInitialized().
getEntityUnchecked(heap, r) == Ok(heap.entity[r])

getEntity(heap, r) ==
  IF ~isInitialized(heap, r) THEN Err(NotInitialized(heap, r)) ELSE Ok(heap.entity[r])

getProperty(heap, r, k) ==
  LET g == getEntity(heap, r)
  IN IF g.status = "error" THEN g ELSE Ok(Prop(heap, g.value, k))

\* Argument lists a serialization is called with.
JSONArgs == {<<>>, <<"strict">>}

\* entity.toJSON(...args) of a handle: a document of the handle's own, made
\* from its type, key fields and loaded state, under the arguments given.
EntityToJSON(heap, x, args) ==
  [of |-> x, name |-> Meta(heap.meta[x.id]).name, pk |-> heap.pk[x.id],
   loaded |-> heap.initialized[x.id], args |-> args]

\* toJSON that passes no argument on.
toJSONNoArgs(heap, r, args) == EntityToJSON(heap, heap.entity[r], <<>>)

\* toJSON(...args): wrap(this.entity).toJSON(...args)
toJSON(heap, r, args) == EntityToJSON(heap, heap.entity[r], args)

\* The synchronous reads of a Reference.
ReadOps == {"unwrap", "isInitialized", "getEntity", "getProperty", "key"}

\* A call that returns ret and leaves the heap `heap`, with the arguments of
\* the init call it made and whether it awaited.
Call(heap, ret, init, awaits) == [heap |-> heap, ret |-> ret, init |-> init, awaits |-> awaits]

\* A getEntity that materializes the handle instead of failing.
SyncReadInitializes(heap, r, op, k) ==
  CASE op = "unwrap" -> Call(heap, Ok(unwrap(heap, r)), NoInit, FALSE)
    [] op = "isInitialized" -> Call(heap, Ok(Bool(isInitialized(heap, r))), NoInit, FALSE)
    [] op = "getEntity" ->
         Call([heap EXCEPT !.initialized[helper(heap, heap.entity[r])] = TRUE],
              Ok(heap.entity[r]), NoInit, FALSE)
    [] op = "getProperty" -> Call(heap, getProperty(heap, r, k), NoInit, FALSE)
    [] OTHER -> Call(heap, Ok(Accessor(heap, r, k)), NoInit, FALSE)

\* unwrap(), isInitialized(), getEntity(), getProperty(k) and the read of the
\* accessor k as calls: none has an assignment, an await or a call of init.
SyncRead(heap, r, op, k) ==
  CASE op = "unwrap" -> Call(heap, Ok(unwrap(heap, r)), NoInit, FALSE)
    [] op = "isInitialized" -> Call(heap, Ok(Bool(isInitialized(heap, r))), NoInit, FALSE)
    [] op = "getEntity" -> Call(heap, getEntity(heap, r), NoInit, FALSE)
    [] op = "getProperty" -> Call(heap, getProperty(heap, r, k), NoInit, FALSE)
    [] OTHER -> Call(heap, Ok(Accessor(heap, r, k)), NoInit, FALSE)

\* ------------------------------------------------------------------- steps
Values == {Ent(e) : e \in Handles} \cup {Ref(r) : r \in Refs}

\* load(), load(options) and load(prop):
\* opts = typeof options === 'object' ? options : { prop: options }.
NoArg == [prop |-> NoField, populate |-> "undefined", lockMode |-> "undefined", connectionType |-> "undefined"]
Options == [prop |-> NoField, populate |-> "books", lockMode |-> "PESSIMISTIC_WRITE", connectionType |-> "read"]
Key(k) == [prop |-> k, populate |-> "undefined", lockMode |-> "undefined", connectionType |-> "undefined"]
LoadArgs == {NoArg, Options, Key("title")}

\* The identifier a call was given, <<>> when it was given none.
NoId == <<>>

\* The last call: its name, the Reference it was made on (0 for a static
\* call), the handle it was about, what it returned, and
\*   init     the arguments it handed to the init delegate,
\*   wrapped  whether its argument was a Reference,
\*   again    whether it continues the call before it: a create of the handle
\*            just created, a load of the Reference createFromPK just
\*            returned, the resumption of the load just suspended,
\*   prev     the Reference the create before it returned (when again),
\*   id       the identifier createFromPK was given (kept while again),
\*   outcome  what the init delegate reported to the resumed load,
\*   opts     the options of a load that calls init; a load past its test of
\*            isInitialized() has opts.prop alone left to read.
Last(op, r, h, res) ==
  [op |-> op, ref |-> r, arg |-> h, ret |-> res, init |-> NoInit, wrapped |-> FALSE,
   again |-> FALSE, prev |-> 0, id |-> NoId, outcome |-> NoError, opts |-> NoArg]

Init ==
  /\ meta = <<>>
  /\ pk = <<>>
  /\ initialized = <<>>
  /\ reference = <<>>
  /\ entity = <<>>
  /\ defined = <<>>
  /\ tasks = <<>>
  /\ initCalls = <<>>
  /\ last = Last("start", 0, Undefined, Ok(Undefined))

\* The heap after a call of Reference.ts, written back to the variables.
Store(heap) ==
  /\ entity' = heap.entity
  /\ reference' = heap.reference
  /\ defined' = heap.defined

\* A new handle joins the object graph (the unit of work or the factory made it).
AddHandle(t, id, init) ==
  /\ meta' = Append(meta, t)
  /\ pk' = Append(pk, id)
  /\ initialized' = Append(initialized, init)
  /\ initCalls' = Append(initCalls, 0)

\* The application holds a managed, fully loaded entity of type t.
NewEntity(t, id) ==
  /\ Len(meta) < MaxHandles
  /\ AddHandle(t, id, TRUE)
  /\ reference' = Append(reference, 0)
  /\ last' = Last("newEntity", 0, Ent(Len(meta) + 1), Ok(Ent(Len(meta) + 1)))
  /\ UNCHANGED <<entity, defined, tasks>>

\* Reference.createNakedFromPK(entityType, pk): factory.createReference gives
\* an uninitialized handle that carries the identifier.
CreateNakedFromPK(t, id) ==
  /\ Len(meta) < MaxHandles
  /\ AddHandle(t, id, FALSE)
  /\ reference' = Append(reference, 0)
  /\ last' = Last("createNakedFromPK", 0, Ent(Len(meta) + 1), Ok(Ent(Len(meta) + 1)))
  /\ UNCHANGED <<entity, defined, tasks>>

\* Reference.createFromPK(entityType, pk): createNakedFromPK, then
\* helper(ref).toReference().
CreateFromPK(t, id) ==
  /\ Len(meta) < MaxHandles
  /\ Len(entity) < MaxRefs
  /\ AddHandle(t, id, FALSE)
  /\ LET e == Len(meta) + 1
         tr == toReference([Heap EXCEPT !.reference = Append(@, 0), !.meta = meta', !.pk = pk',
                                        !.initialized = initialized'], e)
     IN /\ Store(tr.heap)
        /\ last' = [Last("createFromPK", 0, Ent(e), Ok(Ref(tr.ret))) EXCEPT !.id = id]
  /\ UNCHANGED tasks

\* Reference.create(x), x a handle or a Reference.
Create(x) ==
  LET c == create(Heap, x)
  IN /\ Len(c.heap.entity) <= MaxRefs
     /\ Store(c.heap)
     /\ LET again == last.op = "create" /\ last.arg = unwrapReference(Heap, x)
        IN last' = [Last("create", 0, unwrapReference(Heap, x), Ok(Ref(c.ret)))
                      EXCEPT !.wrapped = isReference(x), !.again = again,
                             !.prev = IF again THEN last.ret.value.id ELSE 0]
     /\ UNCHANGED <<meta, pk, initialized, tasks, initCalls>>

\* new Reference(e)
Construct(e) ==
  /\ Len(entity) < MaxRefs
  /\ Store(construct(Heap, Ent(e)))
  /\ last' = Last("new", 0, Ent(e), Ok(Ref(Len(entity) + 1)))
  /\ UNCHANGED <<meta, pk, initialized, tasks, initCalls>>

\* r.set(x); the static type admits a handle or a Reference of r's entity type.
Set(r, x) ==
  /\ meta[helper(Heap, x)] = meta[helper(Heap, entity[r])]
  /\ Store(set(Heap, r, x))
  /\ last' = [Last("set", r, unwrapReference(Heap, x), Ok(Undefined))
                EXCEPT !.wrapped = isReference(x)]
  /\ UNCHANGED <<meta, pk, initialized, tasks, initCalls>>

\* The application assigns an identifier field of a handle.
ChangePK(e, k, v) ==
  /\ k = Meta(meta[e]).primaryKeys[1]
  /\ pk[e][k] # v
  /\ pk' = [pk EXCEPT ![e][k] = v]
  /\ last' = Last("changePK", 0, Ent(e), Ok(Undefined))
  /\ UNCHANGED <<meta, initialized, reference, entity, defined, tasks, initCalls>>

\* ------------------------------------------------------------------- load

\* init(undefined, opts?.populate, opts?.lockMode, opts?.connectionType)
InitArgs(a) == <<"undefined", a.populate, a.lockMode, a.connectionType>>

\* load that returns the entity whatever opts.prop is.
LoadResultWhole(heap, r, k) == Ok(heap.entity[r])

\* What load returns once past the await: this.entity[opts.prop] or this.entity.
LoadResult(heap, r, k) ==
  IF k # NoField THEN Ok(Prop(heap, heap.entity[r], k)) ELSE Ok(heap.entity[r])

\* load that always awaits the init delegate, and load that never does.
NeedsInitAlways(heap, r) == TRUE

NeedsInitNever(heap, r) == FALSE

\* load that joins an init call in flight for the handle instead of making
\* its own.
NeedsInitDedup(heap, r) ==
  /\ ~isInitialized(heap, r)
  /\ ~\E t \in DOMAIN tasks :
        tasks[t].pc = "awaiting" /\ tasks[t].handle = helper(heap, heap.entity[r])

\* Whether load awaits the init delegate.
NeedsInit(heap, r) == ~isInitialized(heap, r)

\* A load that does not await the init call it made.
TaskNoAwait(r, k, e) == [ref |-> r, prop |-> k, handle |-> e, pc |-> "done"]

\* A load() call suspended at its await: its Reference, opts.prop and the
\* handle whose init delegate it awaits.  A call that has returned keeps no
\* state.
Task(r, k, e) == [ref |-> r, prop |-> k, handle |-> e, pc |-> "awaiting"]
Returned == [ref |-> 0, prop |-> NoField, handle |-> 0, pc |-> "done"]

\* r.load(a) up to its await, or to its return when there is none.
Load(r, a) ==
  /\ Len(tasks) < MaxTasks
  /\ LET e == helper(Heap, entity[r])
         again == last.op = "createFromPK" /\ last.ret.value.id = r
         id == IF again THEN last.id ELSE NoId
     IN IF NeedsInit(Heap, r)
          THEN /\ initCalls' = [initCalls EXCEPT ![e] = @ + 1]
               /\ tasks' = Append(tasks, Task(r, a.prop, e))
               /\ last' = [Last("init", r, Ent(e), Ok(Undefined))
                             EXCEPT !.init = InitArgs(a), !.again = again, !.id = id,
                                    !.opts = a]
          ELSE /\ initCalls' = initCalls
               /\ tasks' = Append(tasks, Returned)
               /\ last' = [Last("load", r, Ent(e), LoadResult(Heap, r, a.prop))
                             EXCEPT !.again = again, !.id = id, !.opts = Key(a.prop)]
  /\ UNCHANGED <<meta, pk, initialized, reference, entity, defined>>

\* A resumption that rethrows a failure as an Error of its own.
ResumeWrapsError(heap, tk, outcome) ==
  IF outcome # NoError THEN Err([outcome EXCEPT !.kind = "LoadFailed"])
  ELSE LoadResult(heap, tk.ref, tk.prop)

\* What the suspended load does when the delegate has reported `outcome`:
\* the await rethrows a failure, otherwise the rest of load runs.
Resume(heap, tk, outcome) ==
  IF outcome # NoError THEN Err(outcome) ELSE LoadResult(heap, tk.ref, tk.prop)

\* The init delegate of task t's handle reports success: the handle is
\* materialized and load resumes.
InitResolve(t) ==
  /\ tasks[t].pc = "awaiting"
  /\ initialized' = [initialized EXCEPT ![tasks[t].handle] = TRUE]
  /\ tasks' = [tasks EXCEPT ![t] = Returned]
  /\ LET again == last.op = "init" /\ last.again /\ last.ref = tasks[t].ref
     IN last' = [Last("resume", tasks[t].ref, Ent(tasks[t].handle),
                      Resume([Heap EXCEPT !.initialized = initialized'], tasks[t], NoError))
                   EXCEPT !.again = again, !.id = IF again THEN last.id ELSE NoId,
                          !.opts = Key(tasks[t].prop)]
  /\ UNCHANGED <<meta, pk, reference, entity, defined, initCalls>>

\* The init delegate of task t's handle reports the failure err: load resumes
\* at its await.
InitReject(t, err) ==
  /\ tasks[t].pc = "awaiting"
  /\ tasks' = [tasks EXCEPT ![t] = Returned]
  /\ last' = [Last("resume", tasks[t].ref, Ent(tasks[t].handle), Resume(Heap, tasks[t], err))
                EXCEPT !.outcome = err, !.opts = Key(tasks[t].prop)]
  /\ UNCHANGED <<meta, pk, initialized, reference, entity, defined, initCalls>>

\* ------------------------------------------------------ synchronous reads
\* unwrap, isInitialized, getEntity, getProperty and the identifier accessors
\* assign nothing; what they return is the operator of the same name.
Read(r, op, k) ==
  LET c == SyncRead(Heap, r, op, k)
  IN /\ c.ret.status \in {"ok", "error"}
     /\ Store(c.heap)
     /\ initialized' = c.heap.initialized
     /\ UNCHANGED <<meta, pk, tasks, initCalls, last>>

GetEntity(r) == Read(r, "getEntity", NoField)

GetProperty(r, k) == Read(r, "getProperty", k)

Unwrap(r) == Read(r, "unwrap", NoField)

IsInitialized(r) == Read(r, "isInitialized", NoField)

ReadKey(r, k) == Read(r, "key", k)

\* r.toJSON(...args)
ToJSON(r, args) == toJSON(Heap, r, args).of \in Values /\ UNCHANGED vars

\* The handles of one run are of one entity type: a Reference<T> and the
\* values it is given are all of type T.
SameType(t) == \A e \in Handles : meta[e] = t

\* The calls that give a load its Reference and re-point it.
Graph ==
  \/ \E t \in Types : \E id \in PKInputs(t) : SameType(t) /\ NewEntity(t, id)
  \/ \E t \in Types : \E id \in PKInputs(t) : SameType(t) /\ CreateFromPK(t, id)
  \/ \E x \in Values : Create(x)
  \/ \E r \in Refs : \E x \in Values : Set(r, x)

\* The calls that build and re-point the object graph.
Build ==
  \/ Graph
  \/ \E t \in Types : \E id \in PKInputs(t) : SameType(t) /\ CreateNakedFromPK(t, id)
  \/ \E e \in Handles : Construct(e)
  \/ \E e \in Handles : \E k \in PropNames : \E v \in PKs : ChangePK(e, k, v)

\* load and the completions of the init delegate.
Loads ==
  \/ \E r \in Refs : \E a \in LoadArgs : Load(r, a)
  \/ \E t \in DOMAIN tasks : InitResolve(t)
  \/ \E t \in DOMAIN tasks : \E err \in DelegateErrors : InitReject(t, err)

\* The References the last call was made on or returned: the synchronous
\* reads are taken on these.
LastRefs == {r \in Refs : r = last.ref \/ last.ret.value = Ref(r)}

Reads ==
  \/ \E r \in LastRefs : GetEntity(r)
  \/ \E r \in LastRefs : GetProperty(r, "title")
  \/ \E r \in LastRefs : Unwrap(r)
  \/ \E r \in LastRefs : IsInitialized(r)
  \/ \E r \in LastRefs : \E d \in defined[r] : ReadKey(r, d.name)
  \/ \E r \in LastRefs : \E args \in JSONArgs : ToJSON(r, args)

Next == Build \/ Loads \/ Reads

Spec == Init /\ [][Next]_vars

\* The init delegate of task t's handle completes, one way or the other.
Completes(t) ==
  /\ t \in DOMAIN tasks
  /\ InitResolve(t) \/ \E err \in DelegateErrors : InitReject(t, err)

\* Loads under a delegate that completes every init call it was given, the
\* event loop resuming the awaiting load at once; the other calls are those
\* that make a Reference, re-point it and load it.
FairSpec ==
  /\ Init
  /\ [][Graph \/ Loads]_vars
  /\ \A t \in 1..MaxTasks : WF_vars(Completes(t))

\* ---------------------------------------------------------------- claims
\* The Reference a call returned.
RetRef(l) == l.ret.value.id

\* C1: Reference.create(x) returns a Reference that unwraps to x itself when
\* x is a handle and to x.unwrap() when x is a Reference, in every reachable
\* state, one with a stale cached canonical Reference included.
C1_CreateUnwrapsToInput ==
  last.op = "create" =>
    /\ isReference(last.ret.value)
    /\ unwrap(Heap, RetRef(last)) = last.arg

\* create has just re-pointed the stale canonical Reference of its handle: the
\* Reference it returned wraps the handle, whose marker set has deleted.
C1_Witness ==
  /\ last.op = "create"
  /\ entity[RetRef(last)] = last.arg
  /\ reference[last.arg.id] = 0

\* C2: right after r.set(x), r.unwrap() is x itself when x is a handle and
\* what x.unwrap() was when x is a Reference.
C2_SetThenUnwrap ==
  last.op = "set" => unwrap(Heap, last.ref) = last.arg

\* set has re-pointed the canonical Reference of one handle to another handle.
C2_Witness ==
  /\ last.op = "set"
  /\ unwrap(Heap, last.ref) = last.arg
  /\ \E h \in Handles : reference[h] = last.ref /\ Ent(h) # last.arg

\* C3: at every moment, reading a key field k through a Reference gives the
\* value of k on the handle the Reference wraps now; a set and a change of the
\* handle's identifier are both seen by the next read.
C3_AccessorsAreLive ==
  \A r \in Refs :
    \A k \in SeqToSet(Meta(meta[helper(Heap, entity[r])]).primaryKeys) :
      Accessor(Heap, r, k) = Prop(Heap, unwrap(Heap, r), k)

\* The identifier of a handle has changed while a Reference that set moved to
\* it wraps it, and the accessor gives the new value.
C3_Witness ==
  /\ last.op = "changePK"
  /\ \E r \in Refs :
       /\ entity[r] = last.arg
       /\ \E h \in Handles : reference[h] = r /\ Ent(h) # entity[r]
       /\ \A k \in SeqToSet(Meta(meta[last.arg.id]).primaryKeys) :
            Accessor(Heap, r, k) = KeyValue(Meta(meta[last.arg.id]), pk[last.arg.id][k])

C5_InitAtMostOnce ==
  [][\A h \in Handles :
       /\ initialized[h] => initialized'[h] /\ initCalls'[h] = initCalls[h]
       /\ initCalls'[h] # initCalls[h] =>
            /\ last'.op = "init"
            /\ last'.arg = Ent(h)
            /\ initCalls'[h] = initCalls[h] + 1
       /\ (last'.op = "load" /\ tasks' # tasks) => initCalls' = initCalls]_vars

\* Two loads of one Reference, one after the other: the first awaited the
\* delegate, the second returned at once, and the delegate was called once.
C5_Witness ==
  /\ Len(tasks) = 2
  /\ \A t \in DOMAIN tasks : tasks[t] = Returned
  /\ last.op = "load"
  /\ initCalls[last.arg.id] = 1
  /\ \A h \in Handles : h # last.arg.id => initCalls[h] = 0

\* C6: createFromPK(type, id) calls no init delegate and returns a Reference
\* that is not initialized and whose key accessors give id; the first load of
\* it calls the delegate once, and when that succeeds the Reference is
\* initialized and getEntity() gives a handle whose identifier is id.
C6_CreateFromPK ==
  /\ last.op = "createFromPK" =>
       /\ initCalls[last.arg.id] = 0
       /\ ~isInitialized(Heap, RetRef(last))
       /\ unwrap(Heap, RetRef(last)) = last.arg
       /\ \A k \in DOMAIN last.id :
            Accessor(Heap, RetRef(last), k) = KeyValue(Meta(meta[last.arg.id]), last.id[k])
  /\ (last.op \in {"load", "init"} /\ last.again) =>
       /\ last.op = "init"
       /\ initCalls[last.arg.id] = 1
  /\ (last.op = "resume" /\ last.again /\ last.ret.status = "ok") =>
       /\ initCalls[last.arg.id] = 1
       /\ isInitialized(Heap, last.ref)
       /\ getEntity(Heap, last.ref).status = "ok"
       /\ \A k \in DOMAIN last.id :
            Prop(Heap, getEntity(Heap, last.ref).value, k) = KeyValue(Meta(meta[last.arg.id]), last.id[k])

\* The first load of a Reference from createFromPK has resolved.
C6_Witness ==
  /\ last.op = "resume"
  /\ last.again
  /\ last.ret.status = "ok"
  /\ last.id # NoId
  /\ isInitialized(Heap, last.ref)

\* C7: a Reference never wraps a Reference: what unwrap and unwrapReference
\* give is not a Reference, and unwrapReference applied twice is
\* unwrapReference applied once.
C7_NeverNests ==
  /\ \A r \in Refs : ~isReference(unwrap(Heap, r))
  /\ \A x \in Values :
       /\ ~isReference(unwrapReference(Heap, x))
       /\ unwrapReference(Heap, unwrapReference(Heap, x)) = unwrapReference(Heap, x)

\* set has been given a Reference, and wraps the handle behind it.
C7_Witness ==
  /\ last.op = "set"
  /\ last.wrapped
  /\ unwrap(Heap, last.ref).kind = "entity"

\* C8: when the init delegate fails, load fails with that very error, and the
\* step changes nothing of the Reference: the handle it wraps, isInitialized()
\* and the failure of getEntity() are as before.
C8_FailurePropagates ==
  [][(last'.op = "resume" /\ last'.outcome # NoError) =>
       /\ last'.ret = Err(last'.outcome)
       /\ UNCHANGED <<entity, initialized, reference, defined, pk>>
       /\ \A r \in Refs :
            /\ unwrap(Heap', r) = unwrap(Heap, r)
            /\ isInitialized(Heap', r) = isInitialized(Heap, r)
            /\ getEntity(Heap', r) = getEntity(Heap, r)
       /\ ~initialized[last'.arg.id] =>
            (unwrap(Heap, last'.ref) = last'.arg => getEntity(Heap', last'.ref).status = "error")]_vars

\* A load has failed with the delegate's error; the Reference is still not
\* initialized and wraps the handle it wrapped.
C8_Witness ==
  /\ last.op = "resume"
  /\ last.outcome \in DelegateErrors
  /\ last.ret = Err(last.outcome)
  /\ unwrap(Heap, last.ref) = last.arg
  /\ ~isInitialized(Heap, last.ref)
  /\ getEntity(Heap, last.ref).status = "error"

\* C9: the NotInitialized error carries the name of the entity type and the
\* string conversion of getPrimaryKey() of the wrapped handle.
C9_ErrorCarriesPrimaryKey ==
  \A r \in Refs :
    getEntity(Heap, r).status = "error" =>
      /\ getEntity(Heap, r).error.name = Meta(meta[unwrap(Heap, r).id]).name
      /\ getEntity(Heap, r).error.pk = ToStr(getPrimaryKey(Heap, unwrap(Heap, r).id))

\* getEntity fails on a Reference to a handle with a composite key.
C9_Witness ==
  \E r \in Refs :
    /\ getEntity(Heap, r).status = "error"
    /\ Len(Meta(meta[unwrap(Heap, r).id]).primaryKeys) > 1

\* C9 as stated: the error carries getSerializedPrimaryKey().
C9_ErrorCarriesSerializedKey ==
  \A r \in Refs :
    getEntity(Heap, r).status = "error" =>
      /\ getEntity(Heap, r).error.name = Meta(meta[unwrap(Heap, r).id]).name
      /\ getEntity(Heap, r).error.pk = getSerializedPrimaryKey(Heap, unwrap(Heap, r).id)

\* C10: create called twice in a row on one handle: both References it
\* returned unwrap to that handle.
C10_CreateTwice ==
  (last.op = "create" /\ last.again) =>
    /\ unwrap(Heap, last.prev) = last.arg
    /\ unwrap(Heap, RetRef(last)) = last.arg

\* The second create made a new Reference, the first having re-pointed a
\* stale one; both wrap the handle.
C10_Witness ==
  /\ last.op = "create"
  /\ last.again
  /\ last.prev # RetRef(last)
  /\ unwrap(Heap, last.prev) = last.arg
  /\ unwrap(Heap, RetRef(last)) = last.arg

\* C11: r.toJSON(args) is the document the toJSON of the handle r wraps now
\* gives for args: the same document whatever the loaded state of the handle,
\* of that handle, under those arguments.
C11_ToJSONDelegates ==
  \A r \in Refs : \A args \in JSONArgs :
    /\ toJSON(Heap, r, args) = EntityToJSON(Heap, unwrap(Heap, r), args)
    /\ toJSON(Heap, r, args).of = unwrap(Heap, r)
    /\ toJSON(Heap, r, args).args = args

\* set has moved a Reference to a handle that is not loaded: toJSON gives the
\* document of that handle, not of the handle the Reference was made for.
C11_Witness ==
  /\ last.op = "set"
  /\ ~isInitialized(Heap, last.ref)
  /\ \E h \in Handles :
       /\ reference[h] = last.ref
       /\ Ent(h) # last.arg
       /\ \A args \in JSONArgs :
            /\ toJSON(Heap, last.ref, args) = EntityToJSON(Heap, last.arg, args)
            /\ toJSON(Heap, last.ref, args) # EntityToJSON(Heap, Ent(h), args)

\* The loads suspended in the init delegate of handle h.
InFlight(h) == {t \in DOMAIN tasks : tasks[t].pc = "awaiting" /\ tasks[t].handle = h}

\* C12: load looks at the initialized flag alone: while the handle is not
\* initialized every load awaits an init call of its own, whatever is in
\* flight, so each suspended load stands for one call made; two calls in
\* flight for one handle are reachable.
C12_NoExclusion ==
  /\ \A r \in Refs : ~isInitialized(Heap, r) => NeedsInit(Heap, r)
  /\ \A h \in Handles : Cardinality(InFlight(h)) <= initCalls[h]

\* Two loads of one Reference are suspended, each in its own init call for the
\* same handle, which is not initialized.
C12_Witness ==
  \E h \in Handles :
    /\ ~initialized[h]
    /\ Cardinality(InFlight(h)) = 2
    /\ initCalls[h] = 2
    /\ \A t \in InFlight(h) : tasks[t].ref = last.ref
    /\ last.op = "init"

\* C13: a load that found its handle not initialized is suspended when it
\* has called init, leaves its await only in the step in which the delegate
\* reports (the handle then initialized when it reports success), and, the
\* delegate completing every call, every suspended load returns or fails.
C13_LoadResumesOnCompletion ==
  /\ [](last.op = "init" => tasks[Len(tasks)].pc = "awaiting")
  /\ [][\A t \in DOMAIN tasks :
          (tasks[t].pc = "awaiting" /\ tasks'[t].pc = "done") =>
            /\ last'.op = "resume"
            /\ last'.ref = tasks[t].ref
            /\ last'.outcome = NoError => initialized'[tasks[t].handle]]_vars
  /\ \A t \in 1..MaxTasks :
       (t \in DOMAIN tasks /\ tasks[t].pc = "awaiting")
         ~> (t \in DOMAIN tasks /\ tasks[t].pc = "done")

\* Two loads were suspended in init calls for one handle and both have
\* returned.
C13_Witness ==
  /\ last.op = "resume"
  /\ Len(tasks) = 2
  /\ \A t \in DOMAIN tasks : tasks[t].pc = "done"
  /\ initCalls[last.arg.id] = 2

\* C14: a handle that the constructor, set or the re-point of create has
\* just attached to a Reference has its marker cleared, and after such a call
\* no handle is flagged with a Reference that does not wrap it.
C14_MarkerClearedOnAttach ==
  /\ last.op \in {"set", "new"} => reference[last.arg.id] = 0
  /\ last.op \in {"set", "new", "create", "createFromPK"} =>
       \A h \in Handles :
         reference[h] # 0 => unwrap(Heap, reference[h]) = Ent(h)

\* C15: r.set(x) calls no init delegate, changes no handle's initialized flag,
\* type or identifier and no suspended load, re-points no Reference but r, and
\* leaves r.isInitialized() equal to the flag of the handle it now wraps.
C15_SetIsRepoint ==
  [][(last'.op = "set" /\ last'.ref \in Refs) =>
       /\ UNCHANGED <<initCalls, initialized, pk, meta, tasks>>
       /\ \A r2 \in Refs : r2 # last'.ref => unwrap(Heap', r2) = unwrap(Heap, r2)
       /\ unwrap(Heap', last'.ref) = last'.arg
       /\ isInitialized(Heap', last'.ref) = initialized[last'.arg.id]]_vars

\* set has moved a Reference from a loaded handle to one that is not: it is
\* not initialized any more, and another Reference still wraps the loaded
\* handle.
C15_Witness ==
  /\ last.op = "set"
  /\ ~isInitialized(Heap, last.ref)
  /\ \E h \in Handles :
       /\ reference[h] = last.ref
       /\ initialized[h]
       /\ Ent(h) # last.arg
       /\ \E r2 \in Refs : r2 # last.ref /\ unwrap(Heap, r2) = Ent(h)

\* C16: unwrap(), isInitialized(), getEntity(), getProperty() and the
\* accessors leave the heap as it is (flags, wrapped handles, markers), make no
\* init call and do not await, whether they return or throw; unwrap() returns
\* the wrapped handle in every state.
C16_ReadsChangeNothing ==
  \A r \in Refs : \A op \in ReadOps :
    \A k \in CASE op = "getProperty" -> {"title"}
                [] op = "key" -> {d.name : d \in defined[r]}
                [] OTHER -> {NoField} :
      LET c == SyncRead(Heap, r, op, k)
      IN /\ c.heap = Heap
         /\ c.init = NoInit
         /\ ~c.awaits
         /\ op = "unwrap" => c.ret = Ok(entity[r])

\* The canonical Reference of a handle that is not initialized, a load of it
\* in flight: getEntity throws, unwrap returns the handle.
C16_Witness ==
  \E r \in Refs :
    /\ SyncRead(Heap, r, "getEntity", NoField).ret.status = "error"
    /\ SyncRead(Heap, r, "unwrap", NoField).ret = Ok(entity[r])
    /\ reference[entity[r].id] = r
    /\ InFlight(entity[r].id) # {}

\* C17: a load that returns gives the field opts.prop of the handle wrapped
\* when it returns, as that field is then, or that handle when no key was
\* given; a resumed load returns after the handle it awaited is initialized;
\* the init delegate is called with (undefined, populate, lockMode,
\* connectionType) of the options, and only for a handle not initialized.
C17_LoadResult ==
  /\ (last.op \in {"load", "resume"} /\ last.ret.status = "ok") =>
       last.ret = IF last.opts.prop # NoField
                    THEN Ok(Prop(Heap, unwrap(Heap, last.ref), last.opts.prop))
                    ELSE Ok(unwrap(Heap, last.ref))
  /\ (last.op = "resume" /\ last.outcome = NoError) =>
       /\ initialized[last.arg.id]
       /\ (unwrap(Heap, last.ref) = last.arg /\ last.opts.prop = "title") => last.ret = Ok(Title)
  /\ last.op = "init" =>
       /\ last.init = <<"undefined", last.opts.populate, last.opts.lockMode, last.opts.connectionType>>
       /\ ~initialized[last.arg.id]
  /\ last.op = "load" =>
       /\ last.init = NoInit
       /\ initialized[last.arg.id]

\* load("title") of a Reference that was not initialized has returned the
\* title the handle has once loaded.
C17_Witness ==
  /\ last.op = "resume"
  /\ last.opts.prop = "title"
  /\ last.ret = Ok(Title)
  /\ unwrap(Heap, last.ref) = last.arg

\* C18: a load that returns the whole entity returns the handle the Reference
\* wrapped when load was called, and that handle is initialized.
C18_LoadReturnsInitialized ==
  (/\ last.op \in {"load", "resume"}
   /\ last.ret.status = "ok"
   /\ last.opts.prop = NoField) =>
    /\ last.ret.value = last.arg
    /\ initialized[last.ret.value.id]

\* C19: a handle's marker designates only a Reference that wraps that handle.
C19_MarkerConsistent ==
  \A h \in Handles :
    reference[h] # 0 => unwrap(Heap, reference[h]) = Ent(h)

====
